---- MODULE Spec2Model ----
(***************************************************************************)
(* The farmOS.js client (src/index.js): one client instance `farm` holding *)
(* an OAuth2 access token and a CSRF token, and the promise chains of the  *)
(* operations started on it.  Every action is one synchronous piece of the *)
(* code: the call of an operation, or one promise callback.  A network     *)
(* call suspends the chain; its response (or failure) is a later action.   *)
(***************************************************************************)
EXTENDS Integers, Sequences, FiniteSets, TLC

\* ------------------------------------------------------------ bounds
NumCallers == 2     \* operations in flight on the one client (Spec)
MaxTokens == 2      \* access tokens the authorization server issues
MaxCsrf == 2        \* distinct CSRF token values the server may return
MaxItem == 2        \* distinct items a response list may hold
MaxLast == 2        \* largest page number a `last` URL may report
MaxPage == 2        \* largest page requestAll is followed to
MaxIds == 200       \* longest id array given to batchRequest
MaxErr == 2         \* distinct errors a failing network call may carry
MaxVid == 2         \* vocabulary ids a /taxonomy_vocabulary.json response may list
MaxVocab == 2       \* vocabularies in one /taxonomy_vocabulary.json response
MaxAreaId == 1      \* area (term) ids and page numbers the user passes to farm.area
MaxLogId == 2       \* log ids in payloads and in responses
MaxArr == 2         \* elements of an array passed to appendArrayOfParams

\* ------------------------------------------------------------ program constants
BatchLimit == 100   \* `arr.length <= 100`
BatchSize == 99     \* `arr.slice(0, 99)`, `arr.slice(99)`

Callers == 1..NumCallers

VARIABLES
  token,        \* farm.token
  csrfToken,    \* farm.csrfToken
  issued,       \* tokens the authorization server has issued so far
  authPending,  \* an ownerPassword.getToken call of authorize is in flight
  pc,           \* per caller: where its promise chain stands
  op,           \* per caller: the operation it started
  input,        \* per caller: the argument the operation was called with
  accessToken,  \* per caller: what getAccessToken()'s promise resolved with
  csrf,         \* per caller: what getCSRFToken()'s promise resolved with
  opts,         \* per caller: the axios options of its current request()
  page,         \* per caller: requestAll's `page`
  list,         \* per caller: requestAll's `list` / batchRequest's `results`
  arr,          \* per caller: batchRequest's `arr`
  resp,         \* per caller: res.data of the last resource response
  outcome,      \* per caller: how the operation ended for its caller
  nreq,         \* per caller: how many times the operation has called request()
  sent,         \* per caller: the network calls the operation issued, in order
  recv,         \* per caller: res.data of every resource response, in order
  fault,        \* per caller: the error its failed network call answered with
  loggedOut,    \* logout() was called and neither authorize nor useToken since
  revoke,       \* the revokeAll() call of the last logout(): its answer, if any
  qb            \* a query string being built: endpoint, parameter, result

clientVars == <<token, csrfToken, issued, authPending>>
callerVars == <<pc, op, input, accessToken, csrf, opts, page, list, arr, resp, outcome,
                nreq, sent, recv, fault>>
logoutVars == <<loggedOut, revoke>>
vars == <<clientVars, callerVars, logoutVars, qb>>

\* ------------------------------------------------------------ values
NoToken == [present |-> FALSE, access_token |-> 0, expired |-> FALSE]
Token(a, e) == [present |-> TRUE, access_token |-> a, expired |-> e]
NoCsrf == 0
NoHeader == 0
NoPage == -1

NotAuthorized == [step |-> "client must be authorized before making requests.", code |-> 0]
TypeError == [step |-> "TypeError", code |-> 0]
NoError == [step |-> "", code |-> 0]
NetError(step, c) == [step |-> step, code |-> c]

\* A `last` URL: absent or unparsable, without a page parameter, or with one.
InvalidUrl == [valid |-> FALSE, hasPage |-> FALSE, page |-> 0]
UrlNoPage == [valid |-> TRUE, hasPage |-> FALSE, page |-> 0]
UrlPage(n) == [valid |-> TRUE, hasPage |-> TRUE, page |-> n]
LastUrls == {InvalidUrl, UrlNoPage} \cup {UrlPage(n) : n \in 0..MaxLast}

ItemLists == {<<>>} \cup {<<i>> : i \in 1..MaxItem}
NoResponse == [list |-> <<>>, last |-> InvalidUrl]

Query(pg, ids) == [page |-> pg, ids |-> ids]
PlainQuery == Query(NoPage, <<>>)
Call(kind, auth, xcsrf, q) == [kind |-> kind, auth |-> auth, csrf |-> xcsrf, q |-> q]

Pending == [kind |-> "pending", err |-> NoError, val |-> <<>>]
Resolved(l) == [kind |-> "resolved", err |-> NoError, val |-> l]
Failed(kind, e) == [kind |-> kind, err |-> e, val |-> <<>>]

Ids(n) == [i \in 1..n |-> i]

\* Strings are sequences of tokens; `${n}` of a number is its decimal digits.
Digit == <<"0", "1", "2", "3", "4", "5", "6", "7", "8", "9">>
RECURSIVE Str(_)
Str(n) == IF n < 10 THEN <<Digit[n + 1]>> ELSE Str(n \div 10) \o <<Digit[(n % 10) + 1]>>

\* the `host` farmOS(host, user, password) was constructed with
Host == <<"https://farm">>

\* an id argument that is undefined or 0: `id ? a : b` and `if (payload.id)` take
\* the second branch on both
NoId == 0
Truthy(v) == v # NoId

\* a request() of a facade: method, endpoint, payload; `page` is requestAll's
NoPayload == [given |-> FALSE, id |-> NoId]
Payload(id) == [given |-> TRUE, id |-> id]
EndpointQuery(method, url, pg, data) ==
  [page |-> pg, ids |-> <<>>, method |-> method, url |-> url, data |-> data]

VocabularyUrl == <<"/taxonomy_vocabulary.json">>
Vocabularies == [machine_name : {"farm_areas", "farm_crops"}, vid : 1..MaxVid]
VocabLists == UNION {[1..n -> Vocabularies] : n \in 0..MaxVocab}

\* res.data of a log request: the properties the merge of log.send sets, and
\* the rest of the body
NoUri == <<>>
LogUri(h, id) == h \o <<"/log/">> \o Str(id)
LogBodies ==
  [id : 0..MaxLogId, uri : {NoUri, LogUri(<<"https://other">>, 1)},
   resource : {"", "log"}, rest : {"", "created"}]

\* res.data as the code that asked reads it: only requestAll reads `last`, the
\* area operations read the vocabularies, log.send spreads the body
Responses(o) ==
  IF o = "vocabulary" THEN [list : VocabLists, last : {InvalidUrl}]
  ELSE IF o = "log" THEN [list : {<<>>}, last : {InvalidUrl}, body : LogBodies]
  ELSE [list : ItemLists, last : IF o = "requestAll" THEN LastUrls ELSE {InvalidUrl}]

\* ------------------------------------------------------------ pure helpers
\* Array.prototype.slice(from, to) with 0-based, end-exclusive indices
slice(a, from, to) ==
  LET hi == IF to < Len(a) THEN to ELSE Len(a) IN
  IF from >= hi THEN <<>> ELSE [i \in 1..(hi - from) |-> a[from + i]]

\* +(new URL(response.last)).searchParams.get('page'): +null is 0
lastPageOf(u) == IF u.hasPage THEN u.page ELSE 0

\* getAccessToken without the `farm.token == null` check
getAccessTokenNoCheck(tok) ==
  IF tok.expired THEN [kind |-> "refresh", err |-> NoError, val |-> 0]
  ELSE [kind |-> "resolve", err |-> NoError, val |-> tok.access_token]

\* getAccessToken without the `farm.token.expired()` branch
getAccessTokenNeverRefreshes(tok) ==
  IF ~tok.present THEN [kind |-> "throw", err |-> NotAuthorized, val |-> 0]
  ELSE [kind |-> "resolve", err |-> NoError, val |-> tok.access_token]

\* getAccessToken(): throw without a token, refresh an expired one, else resolve
getAccessToken(tok) ==
  IF ~tok.present THEN [kind |-> "throw", err |-> NotAuthorized, val |-> 0]
  ELSE IF tok.expired THEN [kind |-> "refresh", err |-> NoError, val |-> 0]
  ELSE [kind |-> "resolve", err |-> NoError, val |-> tok.access_token]

\* getCSRFToken(accessToken): resolve with the cached token, else fetch one
getCSRFToken(cached, bearer) ==
  IF cached = NoCsrf THEN [kind |-> "fetch", val |-> bearer]
  ELSE [kind |-> "resolve", val |-> cached]

\* farm.useToken(t): the new farm.token and the value returned (farm.token.token)
useToken(t) == [token |-> t, ret |-> t]

\* requestAll returning `list` without the last page's items
requestAllThenDropsLastPage(pg, lst, response) ==
  IF ~response.last.valid
  THEN [kind |-> "throw", page |-> pg, list |-> lst]
  ELSE IF pg = lastPageOf(response.last)
  THEN [kind |-> "return", page |-> pg, list |-> lst]
  ELSE [kind |-> "recurse", page |-> pg + 1, list |-> lst \o response.list]

\* requestAll stopping as soon as the page requested is at or past `last`
requestAllThenStopsPastLast(pg, lst, response) ==
  IF ~response.last.valid
  THEN [kind |-> "throw", page |-> pg, list |-> lst]
  ELSE IF pg >= lastPageOf(response.last)
  THEN [kind |-> "return", page |-> pg, list |-> lst \o response.list]
  ELSE [kind |-> "recurse", page |-> pg + 1, list |-> lst \o response.list]

\* the callback of requestAll on a response
requestAllThen(pg, lst, response) ==
  IF ~response.last.valid
  THEN [kind |-> "throw", page |-> pg, list |-> lst]
  ELSE IF pg = lastPageOf(response.last)
  THEN [kind |-> "return", page |-> pg, list |-> lst \o response.list]
  ELSE [kind |-> "recurse", page |-> pg + 1, list |-> lst \o response.list]

\* the ids batchRequest puts in the query of its request
batchQuery(a) == IF Len(a) <= BatchLimit THEN a ELSE slice(a, 0, BatchSize)

\* the callback of batchRequest on a response
batchThen(a, results, res) ==
  IF Len(a) <= BatchLimit
  THEN [kind |-> "return", arr |-> a, list |-> results \o res.list]
  ELSE [kind |-> "recurse", arr |-> slice(a, BatchSize, Len(a)), list |-> res.list]

\* params(id): `/${id}.json` for a truthy id, else '.json'
params(id) == IF Truthy(id) THEN <<"/">> \o Str(id) \o <<".json">> ELSE <<".json">>

\* areaVid taking the first vocabulary listed, whatever its machine_name
areaVidFirstEntry(vocab) ==
  IF vocab.list = <<>> THEN [kind |-> "throw", vid |-> 0]
  ELSE [kind |-> "return", vid |-> vocab.list[1].vid]

\* areaVid(vocab): vocab.list.find(machine_name === 'farm_areas').vid; reading
\* .vid of the undefined that find returns without a match throws a TypeError
areaVid(vocab) ==
  LET hits == {i \in 1..Len(vocab.list) : vocab.list[i].machine_name = "farm_areas"} IN
  IF hits = {} THEN [kind |-> "throw", vid |-> 0]
  ELSE [kind |-> "return",
        vid |-> vocab.list[CHOOSE i \in hits : \A j \in hits : i <= j].vid]

\* `/taxonomy_term.json?vocabulary=${areaVid(res)}`
TermUrl(vid) == <<"/taxonomy_term.json?vocabulary=">> \o Str(vid)

\* the arguments of farm.area.get: a number, or { page = null, type = '' }
AreaGetArgs ==
  [number : {TRUE}, id : 0..MaxAreaId, page : {NoPage}, type : {""}]
    \cup [number : {FALSE}, id : {NoId}, page : {NoPage} \cup 0..MaxAreaId,
          type : {"", "field"}]

\* the URL area.get builds in its callback, and whether it goes to requestAll
areaGetUrl(a, vid) ==
  LET typeParams == IF a.type # "" THEN <<"area_type=", a.type>> ELSE <<>>
      pageParams == IF a.page # NoPage THEN <<"page=">> \o Str(a.page) ELSE <<>>
  IN IF a.number
     THEN [all |-> FALSE, url |-> TermUrl(vid) \o <<"&tid=">> \o Str(a.id)]
     ELSE IF a.page = NoPage
     THEN [all |-> TRUE, url |-> TermUrl(vid) \o <<"&">> \o typeParams]
     ELSE [all |-> FALSE,
           url |-> TermUrl(vid) \o <<"&">> \o typeParams \o <<"&">> \o pageParams]

\* the second request of an area operation for the vocabulary id found
areaQuery(o, a, vid) ==
  IF o = "area.delete"
  THEN [all |-> FALSE, q |-> EndpointQuery("DELETE", TermUrl(vid) \o params(a.id), NoPage, NoPayload)]
  ELSE IF o = "area.send"
  THEN [all |-> FALSE,
        q |-> EndpointQuery("POST", TermUrl(vid) \o params(a.id), NoPage, Payload(NoId))]
  ELSE LET g == areaGetUrl(a, vid) IN
       [all |-> g.all,
        q |-> EndpointQuery("GET", g.url, IF g.all THEN 0 ELSE NoPage, NoPayload)]

\* log.send's PUT callback returning the response as it came
logSendThenVerbatim(payload, res) == res.body

\* log.send's PUT callback: { ...res, id, uri: `${host}/log/${id}`, resource: 'log' }
logSendThen(payload, res) ==
  [res.body EXCEPT !.id = payload.id, !.uri = LogUri(Host, payload.id), !.resource = "log"]

\* the request log.send makes for a payload
logSendQuery(payload) ==
  IF Truthy(payload.id)
  THEN EndpointQuery("PUT", <<"/log/">> \o Str(payload.id), NoPage, payload)
  ELSE EndpointQuery("POST", <<"/log">>, NoPage, payload)

\* a parameter value: undefined, or the text `${value}` puts in the string
Undefined == [defined |-> FALSE, text |-> <<>>]
Value(t) == [defined |-> TRUE, text |-> t]
\* an array argument: undefined, or its elements
UndefinedArray == [defined |-> FALSE, elems |-> <<>>]
Array(es) == [defined |-> TRUE, elems |-> es]

\* String.prototype.endsWith('?')
endsWithQuestionMark(endpoint) == endpoint # <<>> /\ endpoint[Len(endpoint)] = "?"

\* appendParam joining with '&' also after a '?'
appendParamAlwaysAmpersand(name, value, endpoint) ==
  IF value.defined THEN endpoint \o <<"&">> \o name \o <<"=">> \o value.text
  ELSE endpoint

\* appendParam(name, value)(endpoint)
appendParam(name, value, endpoint) ==
  IF endsWithQuestionMark(endpoint) /\ value.defined
  THEN endpoint \o name \o <<"=">> \o value.text
  ELSE IF value.defined
  THEN endpoint \o <<"&">> \o name \o <<"=">> \o value.text
  ELSE endpoint

\* arr.reduce((acc, cur, i) => appendParam(`${name}[${i}]`, cur)(acc), endpoint)
\* over the elements from index i (0-based) on
RECURSIVE reduceParams(_, _, _, _)
reduceParams(name, elems, i, acc) ==
  IF i >= Len(elems) THEN acc
  ELSE reduceParams(name, elems, i + 1,
                    appendParam(name \o <<"[">> \o Str(i) \o <<"]">>, elems[i + 1], acc))

\* appendArrayOfParams(name, arr)(endpoint)
appendArrayOfParams(name, a, endpoint) ==
  IF a.defined THEN reduceParams(name, a.elems, 0, endpoint) ELSE endpoint

\* the arguments the facade passes: endpoints with and without a trailing '?',
\* parameter names, values, arrays of values
Endpoints ==
  {<<>>, <<"/log.json">>, <<"/log.json", "?">>, <<"/log.json", "?", "page", "=", "0">>}
Names == {<<"type">>, <<"id">>}
Texts == {<<>>, <<"1">>, <<"farm_harvest">>}
Values == {Undefined} \cup {Value(t) : t \in Texts}
Arrays ==
  {UndefinedArray} \cup
    UNION {{Array(es) : es \in [1..n -> {Value(t) : t \in Texts}]} : n \in 0..MaxArr}

\* no query string is being built
NoQuery == [endpoint |-> <<>>, name |-> <<>>, value |-> Undefined, arr |-> UndefinedArray,
            out |-> <<>>, fn |-> "none"]
QueryInputs ==
  [endpoint : Endpoints, name : Names, value : Values, arr : Arrays, out : {<<>>},
   fn : {"none"}]

\* ------------------------------------------------------------ initial state
NoOpts == [Authorization |-> NoHeader, XCSRF |-> NoHeader, q |-> PlainQuery]

CallersIdle ==
  /\ pc = [p \in Callers |-> "idle"]
  /\ op = [p \in Callers |-> "none"]
  /\ input = [p \in Callers |-> <<>>]
  /\ accessToken = [p \in Callers |-> 0]
  /\ csrf = [p \in Callers |-> 0]
  /\ opts = [p \in Callers |-> NoOpts]
  /\ page = [p \in Callers |-> 0]
  /\ list = [p \in Callers |-> <<>>]
  /\ arr = [p \in Callers |-> <<>>]
  /\ resp = [p \in Callers |-> NoResponse]
  /\ outcome = [p \in Callers |-> Pending]
  /\ nreq = [p \in Callers |-> 0]
  /\ sent = [p \in Callers |-> <<>>]
  /\ recv = [p \in Callers |-> <<>>]
  /\ fault = [p \in Callers |-> NoError]

\* logout was never called
NoLogout ==
  /\ loggedOut = FALSE
  /\ revoke = "none"

\* farmOS(host): token: null, csrfToken: null
Init ==
  /\ token = NoToken
  /\ csrfToken = NoCsrf
  /\ issued = 0
  /\ authPending = FALSE
  /\ CallersIdle
  /\ NoLogout
  /\ qb = NoQuery

\* ------------------------------------------------------------ request
\* The synchronous part of request(endpoint): build opts, call getAccessToken.
\* `nested` tells a call made inside a promise callback (a throw rejects the
\* chain) from a call made by the client's user (a throw reaches the user).
request(p, q, nested) ==
  LET r == getAccessToken(token) IN
  /\ nreq' = [nreq EXCEPT ![p] = @ + 1]
  /\ opts' = [opts EXCEPT ![p] = [Authorization |-> NoHeader, XCSRF |-> NoHeader, q |-> q]]
  /\ csrf' = [csrf EXCEPT ![p] = 0]
  /\ IF r.kind = "throw"
     THEN /\ pc' = [pc EXCEPT ![p] = "done"]
          /\ outcome' = [outcome EXCEPT ![p] =
                           Failed(IF nested THEN "rejected" ELSE "thrown", r.err)]
          /\ accessToken' = [accessToken EXCEPT ![p] = 0]
          /\ UNCHANGED sent
     ELSE IF r.kind = "refresh"
     THEN /\ pc' = [pc EXCEPT ![p] = "refreshing"]
          /\ sent' = [sent EXCEPT ![p] =
                        Append(@, Call("refresh", token.access_token, NoHeader, PlainQuery))]
          /\ accessToken' = [accessToken EXCEPT ![p] = 0]
          /\ UNCHANGED outcome
     ELSE /\ pc' = [pc EXCEPT ![p] = "accessResolved"]
          /\ accessToken' = [accessToken EXCEPT ![p] = r.val]
          /\ UNCHANGED <<sent, outcome>>

\* a catch handler that returns what was gathered instead of rethrowing
RejectSwallowed(p, e) ==
  /\ pc' = [pc EXCEPT ![p] = "done"]
  /\ outcome' = [outcome EXCEPT ![p] = Resolved(list[p])]

\* `.catch((err) => { throw err; })`: the rejection reaches the operation's caller
Reject(p, e) ==
  /\ pc' = [pc EXCEPT ![p] = "done"]
  /\ outcome' = [outcome EXCEPT ![p] = Failed("rejected", e)]

\* a network call of p answered with an error
Fails(p, step) ==
  \E c \in 1..MaxErr :
    /\ fault' = [fault EXCEPT ![p] = NetError(step, c)]
    /\ Reject(p, NetError(step, c))

\* the refresh callback without farm.useToken: the new token is not stored
RefreshResponseNoUseToken(p) ==
  /\ pc[p] = "refreshing"
  /\ \/ /\ issued < MaxTokens
        /\ accessToken' = [accessToken EXCEPT ![p] = issued + 1]
        /\ issued' = issued + 1
        /\ pc' = [pc EXCEPT ![p] = "accessResolved"]
        /\ UNCHANGED <<token, outcome, fault>>
     \/ /\ Fails(p, "refresh")
        /\ UNCHANGED <<token, issued, accessToken>>
  /\ UNCHANGED <<csrfToken, authPending, op, input, csrf, opts, page, list, arr, resp,
                 nreq, sent, recv>>
  /\ UNCHANGED <<logoutVars, qb>>

\* farm.token.refresh(params) answered
RefreshResponse(p) ==
  /\ pc[p] = "refreshing"
  /\ \/ /\ issued < MaxTokens
        /\ LET u == useToken(Token(issued + 1, FALSE)) IN
           /\ token' = u.token
           /\ accessToken' = [accessToken EXCEPT ![p] = u.ret.access_token]
        /\ issued' = issued + 1
        /\ pc' = [pc EXCEPT ![p] = "accessResolved"]
        /\ UNCHANGED <<outcome, fault>>
     \/ /\ Fails(p, "refresh")
        /\ UNCHANGED <<token, issued, accessToken>>
  /\ UNCHANGED <<csrfToken, authPending, op, input, csrf, opts, page, list, arr, resp,
                 nreq, sent, recv>>
  /\ UNCHANGED <<logoutVars, qb>>

\* the callbacks of request after the access token: set the Authorization
\* header, then getCSRFToken(accessToken)
ThenAccessToken(p) ==
  /\ pc[p] = "accessResolved"
  /\ LET r == getCSRFToken(csrfToken, accessToken[p]) IN
     /\ opts' = [opts EXCEPT ![p].Authorization = accessToken[p]]
     /\ IF r.kind = "fetch"
        THEN /\ sent' = [sent EXCEPT ![p] = Append(@, Call("csrf", r.val, NoHeader, PlainQuery))]
             /\ pc' = [pc EXCEPT ![p] = "csrfFetching"]
             /\ UNCHANGED csrf
        ELSE /\ csrf' = [csrf EXCEPT ![p] = r.val]
             /\ pc' = [pc EXCEPT ![p] = "csrfResolved"]
             /\ UNCHANGED sent
  /\ UNCHANGED <<clientVars, op, input, accessToken, page, list, arr, resp, outcome, nreq,
                 recv, fault>>
  /\ UNCHANGED <<logoutVars, qb>>

\* axios(host + '/restws/session/token') answered
CsrfResponse(p) ==
  /\ pc[p] = "csrfFetching"
  /\ \/ \E d \in 1..MaxCsrf :
          /\ csrfToken' = d
          /\ csrf' = [csrf EXCEPT ![p] = csrfToken']
          /\ pc' = [pc EXCEPT ![p] = "csrfResolved"]
          /\ UNCHANGED <<outcome, fault>>
     \/ /\ Fails(p, "csrf")
        /\ UNCHANGED <<csrfToken, csrf>>
  /\ UNCHANGED <<token, issued, authPending, op, input, accessToken, opts, page, list, arr,
                 resp, nreq, sent, recv>>
  /\ UNCHANGED <<logoutVars, qb>>

\* the callback sending what farm holds now instead of what the chain obtained
ThenCsrfTokenRereads(p) ==
  /\ pc[p] = "csrfResolved"
  /\ opts' = [opts EXCEPT ![p].XCSRF = csrfToken]
  /\ sent' = [sent EXCEPT ![p] =
                Append(@, Call("resource", token.access_token, opts'[p].XCSRF, opts[p].q))]
  /\ pc' = [pc EXCEPT ![p] = "awaitHttp"]
  /\ UNCHANGED <<clientVars, op, input, accessToken, csrf, page, list, arr, resp, outcome,
                 nreq, recv, fault>>
  /\ UNCHANGED <<logoutVars, qb>>

\* the callback sending the request a second time without awaiting the first
ThenCsrfTokenSendsAhead(p) ==
  /\ pc[p] = "csrfResolved"
  /\ opts' = [opts EXCEPT ![p].XCSRF = csrf[p]]
  /\ sent' = [sent EXCEPT ![p] =
                @ \o <<Call("resource", opts'[p].Authorization, opts'[p].XCSRF, opts[p].q),
                       Call("resource", opts'[p].Authorization, opts'[p].XCSRF, opts[p].q)>>]
  /\ pc' = [pc EXCEPT ![p] = "awaitHttp"]
  /\ UNCHANGED <<clientVars, op, input, accessToken, csrf, page, list, arr, resp, outcome,
                 nreq, recv, fault>>
  /\ UNCHANGED <<logoutVars, qb>>

\* the callback of request after the CSRF token: set X-CSRF-Token, axios(url, opts)
ThenCsrfToken(p) ==
  /\ pc[p] = "csrfResolved"
  /\ opts' = [opts EXCEPT ![p].XCSRF = csrf[p]]
  /\ sent' = [sent EXCEPT ![p] =
                Append(@, Call("resource", opts'[p].Authorization, opts'[p].XCSRF, opts[p].q))]
  /\ pc' = [pc EXCEPT ![p] = "awaitHttp"]
  /\ UNCHANGED <<clientVars, op, input, accessToken, csrf, page, list, arr, resp, outcome,
                 nreq, recv, fault>>
  /\ UNCHANGED <<logoutVars, qb>>

\* what the request of p in flight asks the server for
AreaOps == {"area.delete", "area.get", "area.send"}
GetsAll(p) == op[p] = "area.get" /\ ~input[p].number /\ input[p].page = NoPage
Asked(p) ==
  IF op[p] \in AreaOps
  THEN IF opts[p].q.url = VocabularyUrl THEN "vocabulary"
       ELSE IF GetsAll(p) THEN "requestAll" ELSE "request"
  ELSE IF op[p] = "log.send" THEN "log"
  ELSE op[p]

\* axios(url, opts) answered
HttpResponse(p) ==
  /\ pc[p] = "awaitHttp"
  /\ \/ \E d \in Responses(Asked(p)) :
          /\ resp' = [resp EXCEPT ![p] = d]
          /\ recv' = [recv EXCEPT ![p] = Append(@, d)]
          /\ pc' = [pc EXCEPT ![p] = "responded"]
          /\ UNCHANGED <<outcome, fault>>
     \/ /\ Fails(p, "http")
        /\ UNCHANGED <<resp, recv>>
  /\ UNCHANGED <<clientVars, op, input, accessToken, csrf, opts, page, list, arr, nreq, sent>>
  /\ UNCHANGED <<logoutVars, qb>>

\* ------------------------------------------------------------ operations
\* a facade calling request(endpoint) once (farm.info, asset.get(id), ...)
StartRequest(p) ==
  /\ pc[p] = "idle"
  /\ op' = [op EXCEPT ![p] = "request"]
  /\ request(p, PlainQuery, FALSE)
  /\ UNCHANGED <<clientVars, input, page, list, arr, resp, recv, fault>>
  /\ UNCHANGED <<logoutVars, qb>>

RequestDone(p) ==
  /\ pc[p] = "responded"
  /\ op[p] = "request"
  /\ pc' = [pc EXCEPT ![p] = "done"]
  /\ outcome' = [outcome EXCEPT ![p] = Resolved(resp[p].list)]
  /\ UNCHANGED <<clientVars, op, input, accessToken, csrf, opts, page, list, arr, resp,
                 nreq, sent, recv, fault>>
  /\ UNCHANGED <<logoutVars, qb>>

\* requestAll(url) with page = 0, list = []
StartRequestAll(p) ==
  /\ pc[p] = "idle"
  /\ op' = [op EXCEPT ![p] = "requestAll"]
  /\ page' = [page EXCEPT ![p] = 0]
  /\ list' = [list EXCEPT ![p] = <<>>]
  /\ request(p, Query(0, <<>>), FALSE)
  /\ UNCHANGED <<clientVars, input, arr, resp, recv, fault>>
  /\ UNCHANGED <<logoutVars, qb>>

RequestAllThen(p) ==
  /\ pc[p] = "responded"
  /\ op[p] = "requestAll"
  /\ LET r == requestAllThen(page[p], list[p], resp[p]) IN
     IF r.kind = "throw"
     THEN /\ Reject(p, TypeError)
          /\ UNCHANGED <<page, list, opts, accessToken, csrf, nreq, sent>>
     ELSE IF r.kind = "return"
     THEN /\ pc' = [pc EXCEPT ![p] = "done"]
          /\ outcome' = [outcome EXCEPT ![p] = Resolved(r.list)]
          /\ UNCHANGED <<page, list, opts, accessToken, csrf, nreq, sent>>
     ELSE /\ r.page <= MaxPage
          /\ page' = [page EXCEPT ![p] = r.page]
          /\ list' = [list EXCEPT ![p] = r.list]
          /\ request(p, Query(r.page, <<>>), TRUE)
  /\ UNCHANGED <<clientVars, op, input, arr, resp, recv, fault>>
  /\ UNCHANGED <<logoutVars, qb>>

\* batchRequest(name, arr, endpoint, results) called: one request for this batch
batchRequest(p, a, results, nested) ==
  /\ arr' = [arr EXCEPT ![p] = a]
  /\ list' = [list EXCEPT ![p] = results]
  /\ request(p, Query(NoPage, batchQuery(a)), nested)

\* log.get([ids]): batchRequest('id', opts, '/log.json?') on a non-empty array
StartBatchRequest(p) ==
  /\ pc[p] = "idle"
  /\ op' = [op EXCEPT ![p] = "batchRequest"]
  /\ \E n \in 1..MaxIds :
       /\ input' = [input EXCEPT ![p] = Ids(n)]
       /\ batchRequest(p, Ids(n), <<>>, FALSE)
  /\ UNCHANGED <<clientVars, page, resp, recv, fault>>
  /\ UNCHANGED <<logoutVars, qb>>

BatchRequestThen(p) ==
  /\ pc[p] = "responded"
  /\ op[p] = "batchRequest"
  /\ LET r == batchThen(arr[p], list[p], resp[p]) IN
     IF r.kind = "return"
     THEN /\ pc' = [pc EXCEPT ![p] = "done"]
          /\ outcome' = [outcome EXCEPT ![p] = Resolved(r.list)]
          /\ UNCHANGED <<arr, list, opts, accessToken, csrf, nreq, sent>>
     ELSE batchRequest(p, r.arr, r.list, TRUE)
  /\ UNCHANGED <<clientVars, op, input, page, resp, recv, fault>>
  /\ UNCHANGED <<logoutVars, qb>>

\* farm.area.delete(id), .get(opts), .send(payload, id): each starts with
\* request('/taxonomy_vocabulary.json')
areaRequest(p, o, a) ==
  /\ op' = [op EXCEPT ![p] = o]
  /\ input' = [input EXCEPT ![p] = a]
  /\ request(p, EndpointQuery("GET", VocabularyUrl, NoPage, NoPayload), FALSE)
  /\ UNCHANGED <<clientVars, page, list, arr, resp, recv, fault>>
  /\ UNCHANGED <<logoutVars, qb>>

\* the arguments of area.delete(id) and area.send(payload, id)
AreaIdArgs == [number : {TRUE}, id : 0..MaxAreaId, page : {NoPage}, type : {""}]

StartAreaDelete(p) ==
  /\ pc[p] = "idle"
  /\ \E a \in AreaIdArgs : areaRequest(p, "area.delete", a)

StartAreaGet(p) ==
  /\ pc[p] = "idle"
  /\ \E a \in AreaGetArgs : areaRequest(p, "area.get", a)

StartAreaSend(p) ==
  /\ pc[p] = "idle"
  /\ \E a \in AreaIdArgs : areaRequest(p, "area.send", a)

\* the callback on the vocabulary response: areaVid(res), then the term request
AreaThen(p) ==
  /\ pc[p] = "responded"
  /\ op[p] \in AreaOps
  /\ opts[p].q.url = VocabularyUrl
  /\ LET v == areaVid(resp[p]) IN
     IF v.kind = "throw"
     THEN /\ Reject(p, TypeError)
          /\ UNCHANGED <<page, list, opts, accessToken, csrf, nreq, sent>>
     ELSE LET r == areaQuery(op[p], input[p], v.vid) IN
          /\ page' = [page EXCEPT ![p] = r.q.page]
          /\ list' = [list EXCEPT ![p] = <<>>]
          /\ request(p, r.q, TRUE)
  /\ UNCHANGED <<clientVars, op, input, arr, resp, recv, fault>>
  /\ UNCHANGED <<logoutVars, qb>>

\* the term request of delete, send, get(id) or get({ page }) answered
AreaDone(p) ==
  /\ pc[p] = "responded"
  /\ op[p] \in AreaOps
  /\ opts[p].q.url # VocabularyUrl
  /\ ~GetsAll(p)
  /\ pc' = [pc EXCEPT ![p] = "done"]
  /\ outcome' = [outcome EXCEPT ![p] = Resolved(resp[p].list)]
  /\ UNCHANGED <<clientVars, op, input, accessToken, csrf, opts, page, list, arr, resp,
                 nreq, sent, recv, fault>>
  /\ UNCHANGED <<logoutVars, qb>>

\* area.get without a page: the callback of requestAll on a page of terms
AreaGetAllThen(p) ==
  /\ pc[p] = "responded"
  /\ GetsAll(p)
  /\ opts[p].q.url # VocabularyUrl
  /\ LET r == requestAllThen(page[p], list[p], resp[p]) IN
     IF r.kind = "throw"
     THEN /\ Reject(p, TypeError)
          /\ UNCHANGED <<page, list, opts, accessToken, csrf, nreq, sent>>
     ELSE IF r.kind = "return"
     THEN /\ pc' = [pc EXCEPT ![p] = "done"]
          /\ outcome' = [outcome EXCEPT ![p] = Resolved(r.list)]
          /\ UNCHANGED <<page, list, opts, accessToken, csrf, nreq, sent>>
     ELSE /\ r.page <= MaxPage
          /\ page' = [page EXCEPT ![p] = r.page]
          /\ list' = [list EXCEPT ![p] = r.list]
          /\ request(p, [opts[p].q EXCEPT !.page = r.page], TRUE)
  /\ UNCHANGED <<clientVars, op, input, arr, resp, recv, fault>>
  /\ UNCHANGED <<logoutVars, qb>>

\* farm.log.send(payload): PUT /log/{id} for a truthy payload.id, else POST /log
StartLogSend(p) ==
  /\ pc[p] = "idle"
  /\ op' = [op EXCEPT ![p] = "log.send"]
  /\ \E id \in 0..MaxLogId :
       /\ input' = [input EXCEPT ![p] = Payload(id)]
       /\ request(p, logSendQuery(Payload(id)), FALSE)
  /\ UNCHANGED <<clientVars, page, list, arr, resp, recv, fault>>
  /\ UNCHANGED <<logoutVars, qb>>

\* the request of log.send answered: the PUT branch merges, the POST branch
\* returns request's promise as it is
LogSendDone(p) ==
  /\ pc[p] = "responded"
  /\ op[p] = "log.send"
  /\ pc' = [pc EXCEPT ![p] = "done"]
  /\ outcome' = [outcome EXCEPT ![p] =
                   Resolved(IF Truthy(input[p].id) THEN logSendThen(input[p], resp[p])
                            ELSE resp[p].body)]
  /\ UNCHANGED <<clientVars, op, input, accessToken, csrf, opts, page, list, arr, resp,
                 nreq, sent, recv, fault>>
  /\ UNCHANGED <<logoutVars, qb>>

\* appendParam(name, value)(endpoint) is evaluated
AppendParam ==
  /\ qb.fn = "none"
  /\ qb' = [qb EXCEPT !.out = appendParam(qb.name, qb.value, qb.endpoint),
                      !.fn = "appendParam"]
  /\ UNCHANGED <<clientVars, callerVars, logoutVars>>

\* appendArrayOfParams(name, arr)(endpoint) is evaluated
AppendArrayOfParams ==
  /\ qb.fn = "none"
  /\ qb' = [qb EXCEPT !.out = appendArrayOfParams(qb.name, qb.arr, qb.endpoint),
                      !.fn = "appendArrayOfParams"]
  /\ UNCHANGED <<clientVars, callerVars, logoutVars>>

\* ------------------------------------------------------------ the client's user
\* farm.authorize(user, password) with both given: ownerPassword.getToken is sent
Authorize ==
  /\ ~authPending
  /\ authPending' = TRUE
  /\ UNCHANGED <<token, csrfToken, issued>>
  /\ UNCHANGED callerVars
  /\ loggedOut' = FALSE
  /\ UNCHANGED <<revoke, qb>>

\* ... answered: farm.useToken(result) on success
AuthorizeResponse ==
  /\ authPending
  /\ authPending' = FALSE
  /\ \/ /\ issued < MaxTokens
        /\ token' = useToken(Token(issued + 1, FALSE)).token
        /\ issued' = issued + 1
     \/ UNCHANGED <<token, issued>>
  /\ UNCHANGED csrfToken
  /\ UNCHANGED callerVars
  /\ UNCHANGED <<logoutVars, qb>>

\* farm.useToken(token) called by the user with a token it kept
UseToken ==
  /\ \E a \in 1..issued, e \in BOOLEAN : token' = useToken(Token(a, e)).token
  /\ token' # token
  /\ UNCHANGED <<csrfToken, issued, authPending>>
  /\ UNCHANGED callerVars
  /\ loggedOut' = FALSE
  /\ UNCHANGED <<revoke, qb>>

\* a logout that also forgets the cached CSRF token
LogoutClearsCsrf ==
  /\ token.present
  /\ token' = NoToken
  /\ csrfToken' = NoCsrf
  /\ UNCHANGED <<issued, authPending>>
  /\ UNCHANGED callerVars
  /\ loggedOut' = TRUE
  /\ revoke' = "pending"
  /\ UNCHANGED qb

\* farm.logout(): revokeAll() is sent and farm.token = null is evaluated at once
Logout ==
  /\ token.present
  /\ token' = NoToken
  /\ UNCHANGED <<csrfToken, issued, authPending>>
  /\ UNCHANGED callerVars
  /\ loggedOut' = TRUE
  /\ revoke' = "pending"
  /\ UNCHANGED qb

\* the revokeAll() of logout answered: `.then(null)` passes either answer on
RevokeResponse ==
  /\ revoke = "pending"
  /\ \/ revoke' = "revoked"
     \/ revoke' = "failed"
  /\ UNCHANGED <<clientVars, callerVars, loggedOut, qb>>

\* time passes: the held token's expires_at is reached
Expire ==
  /\ token.present
  /\ ~token.expired
  /\ token' = [token EXCEPT !.expired = TRUE]
  /\ UNCHANGED <<csrfToken, issued, authPending>>
  /\ UNCHANGED callerVars
  /\ UNCHANGED <<logoutVars, qb>>

\* ------------------------------------------------------------ specifications
\* Spec: NumCallers single requests in flight on one client
Next ==
  \/ Authorize
  \/ AuthorizeResponse
  \/ UseToken
  \/ Logout
  \/ RevokeResponse
  \/ Expire
  \/ \E p \in Callers : StartRequest(p)
  \/ \E p \in Callers : RefreshResponse(p)
  \/ \E p \in Callers : ThenAccessToken(p)
  \/ \E p \in Callers : CsrfResponse(p)
  \/ \E p \in Callers : ThenCsrfToken(p)
  \/ \E p \in Callers : HttpResponse(p)
  \/ \E p \in Callers : RequestDone(p)

Spec == Init /\ [][Next]_vars

\* SpecWalk: one operation (request, requestAll or batchRequest) on a client
\* that authorize has given its first token
InitWalk ==
  /\ token = Token(1, FALSE)
  /\ csrfToken = NoCsrf
  /\ issued = 1
  /\ authPending = FALSE
  /\ CallersIdle
  /\ NoLogout
  /\ qb = NoQuery

NextWalk ==
  \/ Logout
  \/ RevokeResponse
  \/ Expire
  \/ StartRequest(1)
  \/ StartRequestAll(1)
  \/ StartBatchRequest(1)
  \/ RefreshResponse(1)
  \/ ThenAccessToken(1)
  \/ CsrfResponse(1)
  \/ ThenCsrfToken(1)
  \/ HttpResponse(1)
  \/ RequestDone(1)
  \/ RequestAllThen(1)
  \/ BatchRequestThen(1)

SpecWalk == InitWalk /\ [][NextWalk]_vars

\* SpecFacade: one farm.area or farm.log.send operation on an authorized client
NextFacade ==
  \/ Logout
  \/ StartAreaDelete(1)
  \/ StartAreaGet(1)
  \/ StartAreaSend(1)
  \/ StartLogSend(1)
  \/ ThenAccessToken(1)
  \/ CsrfResponse(1)
  \/ ThenCsrfToken(1)
  \/ HttpResponse(1)
  \/ AreaThen(1)
  \/ AreaDone(1)
  \/ AreaGetAllThen(1)
  \/ LogSendDone(1)

SpecFacade == InitWalk /\ [][NextFacade]_vars

\* SpecQuery: the query-string helpers applied to arguments of every shape
InitQuery ==
  /\ token = NoToken
  /\ csrfToken = NoCsrf
  /\ issued = 0
  /\ authPending = FALSE
  /\ CallersIdle
  /\ NoLogout
  /\ qb \in QueryInputs

NextQuery ==
  \/ AppendParam
  \/ AppendArrayOfParams

SpecQuery == InitQuery /\ [][NextQuery]_vars

\* ------------------------------------------------------------ claims
RECURSIVE Flatten(_)
Flatten(ss) == IF ss = <<>> THEN <<>> ELSE Head(ss) \o Flatten(Tail(ss))

\* the `list` of every resource response p received, in order
ListsReceived(p) == [i \in 1..Len(recv[p]) |-> recv[p][i].list]
\* the resource calls p issued, in order
ResourceCalls(p) == SelectSeq(sent[p], LAMBDA c : c.kind = "resource")
CallsOfKind(p, k) == Len(SelectSeq(sent[p], LAMBDA c : c.kind = k))
Ceil(n, d) == (n + d - 1) \div d

\* C1: the list batchRequest returns is the concatenation, in issue order, of
\* the `list` of every per-chunk response.
C1_BatchReturnsEveryChunk ==
  \A p \in Callers :
    (op[p] = "batchRequest" /\ outcome[p].kind = "resolved")
      => outcome[p].val = Flatten(ListsReceived(p))

\* C2: for an array of more than 99 ids batchRequest issues exactly
\* ceil(length / 99) requests.
C2_BatchIssuesCeilRequests ==
  \A p \in Callers :
    (op[p] = "batchRequest" /\ outcome[p].kind = "resolved" /\ Len(input[p]) > 99)
      => Len(ResourceCalls(p)) = Ceil(Len(input[p]), 99)

\* every response p received so far reports `last` page n
AllReport(p, n) == \A i \in 1..Len(recv[p]) : recv[p][i].last = UrlPage(n)

\* C3: against a server of N pages whose every response reports last page N-1,
\* requestAll started at page 0 requests the pages 0..N-1 once each in
\* increasing order, returns after the N-th response and returns the
\* concatenation of the N pages' lists in page order.
C3_RequestAllWalksPages ==
  \A p \in Callers : \A N \in 1..(MaxLast + 1) :
    (op[p] = "requestAll" /\ AllReport(p, N - 1))
      => LET calls == ResourceCalls(p) IN
         /\ Len(calls) <= N
         /\ \A i \in 1..Len(calls) : calls[i].q.page = i - 1
         /\ outcome[p].kind = "resolved"
              => /\ Len(calls) = N
                 /\ Len(recv[p]) = N
                 /\ outcome[p].val = Flatten(ListsReceived(p))
         /\ (Len(recv[p]) = N /\ pc[p] = "done") => outcome[p].kind = "resolved"

\* a requestAll over three pages with different lists has returned
C3_Witness ==
  \E p \in Callers :
    /\ op[p] = "requestAll"
    /\ AllReport(p, 2)
    /\ outcome[p].kind = "resolved"
    /\ outcome[p].val = <<1, 2, 1>>

\* the call p issues in this step, if it issues one
Issues(p) == Len(sent'[p]) = Len(sent[p]) + 1
Issued(p) == sent'[p][Len(sent'[p])]
\* p calls request(), and with it getAccessToken(), in this step
CallsRequest(p) == nreq'[p] = nreq[p] + 1

\* C4: with no access token held, getAccessToken fails with the not-authorized
\* error and the request issues no HTTP call at all.
C4_NoTokenNoCall ==
  [][\A p \in Callers :
       /\ (CallsRequest(p) /\ ~token.present)
            => /\ pc'[p] = "done"
               /\ outcome'[p].kind \in {"thrown", "rejected"}
               /\ outcome'[p].err = NotAuthorized
               /\ sent'[p] = sent[p]
       /\ outcome[p].err = NotAuthorized => sent'[p] = sent[p]]_vars

\* a request made after logout has failed as not authorized, with no call issued
C4_Witness ==
  \E p \in Callers :
    /\ outcome[p].err = NotAuthorized
    /\ sent[p] = <<>>
    /\ issued > 0
    /\ ~token.present

\* C5: getAccessToken calls the authorization server's refresh if and only if
\* the held token is expired at the time of the call; before expiry it returns
\* the held access token and makes no network call.
C5_RefreshIffExpired ==
  [][\A p \in Callers :
       /\ (CallsRequest(p) /\ token.present)
            => IF token.expired
               THEN /\ pc'[p] = "refreshing"
                    /\ Issues(p)
                    /\ Issued(p).kind = "refresh"
               ELSE /\ pc'[p] = "accessResolved"
                    /\ accessToken'[p] = token.access_token
                    /\ sent'[p] = sent[p]
                    /\ token' = token
       /\ (Issues(p) /\ Issued(p).kind = "refresh")
            => CallsRequest(p) /\ token.present /\ token.expired]_vars

\* two requests made before expiry both got the held token without any call
C5_Witness ==
  /\ token.present
  /\ ~token.expired
  /\ \A p \in Callers :
       /\ pc[p] = "accessResolved"
       /\ accessToken[p] = token.access_token
       /\ sent[p] = <<>>

\* C6: a successful refresh makes the new token the held token and the value
\* returned, which becomes the Authorization header of the pending request; a
\* failed refresh leaves the held token unchanged, reaches the caller as the
\* refresh error, and is not followed by another refresh of that call.
C6_RefreshReplacesOrPropagates ==
  [][\A p \in Callers :
       /\ (pc[p] = "refreshing" /\ pc'[p] # "refreshing")
            => \/ /\ pc'[p] = "accessResolved"
                  /\ issued' = issued + 1
                  /\ token' = Token(issued', FALSE)
                  /\ accessToken'[p] = token'.access_token
                  /\ sent'[p] = sent[p]
               \/ /\ pc'[p] = "done"
                  /\ token' = token
                  /\ fault'[p].step = "refresh"
                  /\ outcome'[p] = Failed("rejected", fault'[p])
                  /\ sent'[p] = sent[p]
       /\ (pc[p] = "accessResolved" /\ pc'[p] # "accessResolved")
            => opts'[p].Authorization = accessToken[p]
       /\ (Issues(p) /\ Issued(p).kind = "resource")
            => Issued(p).auth = accessToken[p]
       /\ pc[p] = "done" => sent'[p] = sent[p]]_vars

\* one request's refresh failed, another's succeeded and its resource call
\* carries the token now held
C6_Witness ==
  \E p, r \in Callers :
    /\ fault[p].step = "refresh"
    /\ outcome[p].kind = "rejected"
    /\ CallsOfKind(r, "refresh") = 1
    /\ Len(ResourceCalls(r)) = 1
    /\ ResourceCalls(r)[1].auth = token.access_token
    /\ token.access_token = issued

RECURSIVE TotalCalls(_, _)
\* the calls of kind k issued by callers 1..n
TotalCalls(n, k) == IF n = 0 THEN 0 ELSE CallsOfKind(n, k) + TotalCalls(n - 1, k)

\* C7: once cached, farm.csrfToken never changes, and the session-token
\* endpoint is fetched at most once per client instance.
C7_CsrfCachedOnce ==
  [][/\ csrfToken # NoCsrf => csrfToken' = csrfToken
     /\ TotalCalls(NumCallers, "csrf")' <= 1]_vars

\* C8: request obtains the access token, then the CSRF token, then issues the
\* resource call, which carries exactly the two tokens obtained in that
\* invocation.
C8_TokensThenCall ==
  [][\A p \in Callers :
       /\ (Issues(p) /\ Issued(p).kind = "resource")
            => /\ pc[p] = "csrfResolved"
               /\ accessToken[p] # 0
               /\ csrf[p] # 0
               /\ Issued(p).auth = accessToken[p]
               /\ Issued(p).csrf = csrf[p]
       /\ (Issues(p) /\ Issued(p).kind = "csrf")
            => /\ accessToken[p] # 0
               /\ csrf[p] = 0
               /\ Issued(p).auth = accessToken[p]
       /\ csrf'[p] # 0 => accessToken'[p] # 0
       /\ (Issues(p) /\ Issued(p).kind # "resource")
            => Len(ResourceCalls(p)) < nreq'[p]]_vars

\* a request refreshed the token, fetched the CSRF token and sent its call
C8_Witness ==
  \E p \in Callers :
    /\ Len(sent[p]) = 3
    /\ sent[p][1].kind = "refresh"
    /\ sent[p][2].kind = "csrf"
    /\ sent[p][3].kind = "resource"
    /\ sent[p][3].auth # sent[p][1].auth

\* C9: once a token refresh, a CSRF fetch or a resource call of request,
\* requestAll or batchRequest has failed, the operation issues no further
\* network call, returns no partial result and reports exactly that error.
C9_FailurePropagates ==
  [][\A p \in Callers :
       /\ fault'[p] # NoError
            => /\ pc'[p] = "done"
               /\ outcome'[p] = Failed("rejected", fault'[p])
       /\ fault[p] # NoError
            => /\ sent'[p] = sent[p]
               /\ nreq'[p] = nreq[p]
               /\ fault'[p] = fault[p]
       /\ (fault[p] = NoError /\ fault'[p] # NoError) => sent'[p] = sent[p]]_vars

\* a page of requestAll failed after earlier pages had delivered items
C9_Witness ==
  \E p \in Callers :
    /\ op[p] = "requestAll"
    /\ fault[p].step = "http"
    /\ list[p] # <<>>
    /\ Len(recv[p]) = 2
    /\ outcome[p].kind = "rejected"

\* C10: every failure of an operation that goes through request reaches the
\* caller as a rejected promise, never as an exception thrown from the call.
C10_FailuresAreRejections ==
  \A p \in Callers : outcome[p].kind # "thrown"

\* C11: after logout() the client holds no access token in any later state
\* until the caller next invokes authorize or useToken, whatever the answer to
\* the revocation and whatever requests or token refreshes are in flight.
C11_LogoutHoldsNoToken == loggedOut => ~token.present

\* C17: at most one token refresh is in flight at any time.
C17_OneRefreshInFlight == Cardinality({p \in Callers : pc[p] = "refreshing"}) <= 1

\* C19: logout changes only the access token: the cached CSRF token stays, so
\* a request made while a CSRF token is cached (also after logout and a new
\* authorize) fetches no CSRF token and carries the cached one.
C19_LogoutKeepsCsrf ==
  [][/\ (token.present /\ ~token'.present)
        => /\ csrfToken' = csrfToken
           /\ UNCHANGED <<issued, authPending, callerVars>>
     /\ \A p \in Callers :
          /\ (pc[p] = "accessResolved" /\ pc'[p] # pc[p] /\ csrfToken # NoCsrf)
               => /\ sent'[p] = sent[p]
                  /\ csrf'[p] = csrfToken
          /\ (Issues(p) /\ Issued(p).kind = "resource") => Issued(p).csrf = csrf[p]]_vars

\* after a logout and a second login a request went out under the second
\* login's token with the CSRF token another request fetched under the first
C19_Witness ==
  /\ revoke # "none"
  /\ ~loggedOut
  /\ token.present /\ token.access_token = 2
  /\ \E p, q \in Callers :
       /\ Len(sent[q]) >= 1 /\ sent[q][1].kind = "csrf" /\ sent[q][1].auth = 1
       /\ Len(sent[p]) = 1 /\ sent[p][1].kind = "resource"
       /\ sent[p][1].auth = 2 /\ sent[p][1].csrf = csrfToken
       /\ outcome[p].kind = "resolved"

\* the resource requests of p that have been answered, with data or an error
Answered(p) == Len(recv[p]) + (IF fault[p].step = "http" THEN 1 ELSE 0)

\* C12: within one requestAll or batchRequest at most one resource request is
\* outstanding at any time: the next page or chunk is requested only after
\* the response to the previous one was received.
C12_OneRequestOutstanding ==
  \A p \in Callers :
    op[p] \in {"requestAll", "batchRequest"}
      => LET outstanding == Len(ResourceCalls(p)) - Answered(p) IN
         /\ outstanding \in {0, 1}
         /\ outstanding = 1 <=> pc[p] = "awaitHttp"

\* a second page and a second chunk are awaited, the first ones answered
C12_Witness ==
  \E p \in Callers :
    /\ op[p] \in {"requestAll", "batchRequest"}
    /\ Len(ResourceCalls(p)) = 2
    /\ Len(recv[p]) = 1
    /\ pc[p] = "awaitHttp"

\* C16: requestAll from page 0 requests the pages 0, 1, 2, ... and returns if
\* and only if a response reports a last page equal to the page just
\* requested, at the first such response; on any other last page (also one
\* below the page requested) it does not return but requests the next page.
C16_RequestAllStopsAtLastPage ==
  [][\A p \in Callers :
       op[p] = "requestAll"
         => /\ (Issues(p) /\ Issued(p).kind = "resource")
                 => Issued(p).q.page = Len(ResourceCalls(p))
            /\ (outcome[p].kind # "resolved" /\ outcome'[p].kind = "resolved")
                 => /\ pc[p] = "responded"
                    /\ resp[p].last.valid
                    /\ lastPageOf(resp[p].last) = page[p]
                    /\ page[p] = Len(recv[p]) - 1
            /\ (pc[p] = "responded" /\ pc'[p] # "responded" /\ resp[p].last.valid)
                 => IF lastPageOf(resp[p].last) = page[p]
                    THEN outcome'[p].kind = "resolved"
                    ELSE /\ outcome'[p].kind # "resolved"
                         /\ CallsRequest(p)
                         /\ page'[p] = page[p] + 1]_vars

\* page 0 reported last page 2, page 1 reported last page 0 (below the page
\* requested), page 2 reported last page 2: requestAll returned only then
C16_Witness ==
  \E p \in Callers :
    /\ op[p] = "requestAll"
    /\ Len(recv[p]) = 3
    /\ recv[p][1].last = UrlPage(2)
    /\ recv[p][2].last = UrlPage(0)
    /\ recv[p][3].last = UrlPage(2)
    /\ outcome[p].kind = "resolved"

\* the ids carried by each request of p, in issue order
ChunksSent(p) == [i \in 1..Len(ResourceCalls(p)) |-> ResourceCalls(p)[i].q.ids]

\* C18: batchRequest partitions its id array: the chunks it sends, in issue
\* order, concatenate to the input exactly, and no request carries more than
\* 99 ids.
C18_BatchPartitionsIds ==
  \A p \in Callers :
    op[p] = "batchRequest"
      => /\ \A i \in 1..Len(ChunksSent(p)) : Len(ChunksSent(p)[i]) <= 99
         /\ outcome[p].kind = "resolved" => Flatten(ChunksSent(p)) = input[p]

HasPrefix(t, pre) == Len(t) >= Len(pre) /\ SubSeq(t, 1, Len(pre)) = pre
\* the response lists a 'farm_areas' vocabulary, and the vid of the first one
ListsAreas(r) == \E i \in 1..Len(r.list) : r.list[i].machine_name = "farm_areas"
AreasVid(r) ==
  LET i == CHOOSE k \in 1..Len(r.list) :
             /\ r.list[k].machine_name = "farm_areas"
             /\ \A j \in 1..(k - 1) : r.list[j].machine_name # "farm_areas"
  IN r.list[i].vid

C14_LogSendPutsOrPosts ==
  \A p \in Callers :
    op[p] = "log.send"
      => LET calls == ResourceCalls(p)
             id == input[p].id
         IN
         /\ Len(calls) <= 1
         /\ \A i \in 1..Len(calls) :
              IF id # NoId
              THEN calls[i].q.method = "PUT" /\ calls[i].q.url = <<"/log/">> \o Str(id)
              ELSE calls[i].q.method = "POST" /\ calls[i].q.url = <<"/log">>
         /\ outcome[p].kind = "resolved"
              => /\ Len(calls) = 1
                 /\ Len(recv[p]) = 1
                 /\ outcome[p].val =
                      IF id # NoId
                      THEN [id |-> id, uri |-> Host \o <<"/log/">> \o Str(id),
                            resource |-> "log", rest |-> recv[p][1].body.rest]
                      ELSE recv[p][1].body

\* a PUT for log 2 returned; the response named another id and uri, no
\* resource, and a further property that the result kept
C14_Witness ==
  \E p \in Callers :
    /\ op[p] = "log.send"
    /\ input[p].id = 2
    /\ outcome[p].kind = "resolved"
    /\ recv[p][1].body = [id |-> 1, uri |-> LogUri(<<"https://other">>, 1),
                          resource |-> "", rest |-> "created"]
    /\ outcome[p].val.id = 2
    /\ outcome[p].val.rest = "created"

\* the pair `name[i]=arr[i]` of element i (0-based) with the separator before
\* it: none for the first pair after an endpoint ending in '?', else '&'
ArrayPair(q, i) ==
  (IF i = 0 /\ endsWithQuestionMark(q.endpoint) THEN <<>> ELSE <<"&">>)
    \o q.name \o <<"[">> \o Str(i) \o <<"]", "=">> \o q.arr.elems[i + 1].text

====
